---- MODULE Spec2Model ----
(***************************************************************************)
(* gh-check-github-ip-ranges: the IPChecker (validation, lazy fetch of the *)
(* GitHub /meta ranges, first-match classification) and the command-line   *)
(* entry point that maps its outcomes to exit codes.                       *)
(*                                                                         *)
(* Text is modelled as a sequence of one-character strings, so that the    *)
(* parsers of package net are computed over the characters they read.      *)
(* Addresses are sequences of octets (length 4 or 16), as net.IP is.       *)
(***************************************************************************)
EXTENDS Integers, Sequences, FiniteSets, TLC

\* Go's nil slice (a nil net.IP, a nil error text) is the empty sequence
NoIP == <<>>

NoErr == <<>>

\* a pointer is a sequence of no element (nil) or one (the value pointed to)
NilPtr == <<>>

Ref(x) == <<x>>

Deref(p) == p[1]

\* ------------------------------------------------------------------ text
Digits == <<"0", "1", "2", "3", "4", "5", "6", "7", "8", "9">>

\* the value of each hexadecimal digit character
HexDigitValue ==
  [c \in {"0", "1", "2", "3", "4", "5", "6", "7", "8", "9", "a", "b", "c", "d",
          "e", "f", "A", "B", "C", "D", "E", "F"} |->
     CASE c = "0" -> 0 [] c = "1" -> 1 [] c = "2" -> 2 [] c = "3" -> 3
       [] c = "4" -> 4 [] c = "5" -> 5 [] c = "6" -> 6 [] c = "7" -> 7
       [] c = "8" -> 8 [] c = "9" -> 9
       [] c \in {"a", "A"} -> 10 [] c \in {"b", "B"} -> 11
       [] c \in {"c", "C"} -> 12 [] c \in {"d", "D"} -> 13
       [] c \in {"e", "E"} -> 14 [] c \in {"f", "F"} -> 15]

IsHex(c) == c \in DOMAIN HexDigitValue

HexVal(c) == HexDigitValue[c]

IsDigit(c) == IsHex(c) /\ HexDigitValue[c] < 10

DigitVal(c) == HexDigitValue[c]

\* fmt's %d of a non-negative integer
RECURSIVE FormatDec(_)
FormatDec(n) ==
  IF n < 10 THEN <<Digits[n + 1]>>
  ELSE FormatDec(n \div 10) \o <<Digits[(n % 10) + 1]>>

\* the dotted-decimal text of four octets
FormatIPv4(o) ==
  FormatDec(o[1]) \o <<".">> \o FormatDec(o[2]) \o <<".">>
    \o FormatDec(o[3]) \o <<".">> \o FormatDec(o[4])

\* the text "a.b.c.d/n"
FormatCIDR(o, n) == FormatIPv4(o) \o <<"/">> \o FormatDec(n)

\* strings.IndexByte: the first position of c in s, 0 when absent
IndexByte(s, c) ==
  IF \E i \in 1..Len(s) : s[i] = c
  THEN CHOOSE i \in 1..Len(s) : s[i] = c /\ \A j \in 1..(i - 1) : s[j] # c
  ELSE 0

Suffix(s, from) == SubSeq(s, from, Len(s))

\* ------------------------------------------------------- package net/netip
\* netip.parseIPv4: four decimal fields 0..255 without leading zeros
RECURSIVE ParseIPv4Loop(_, _, _, _, _)
ParseIPv4Loop(s, i, val, digLen, fields) ==
  IF i > Len(s)
  THEN IF Len(fields) < 3 THEN NoIP ELSE Append(fields, val)
  ELSE IF IsDigit(s[i])
  THEN IF digLen = 1 /\ val = 0 THEN NoIP
       ELSE IF val * 10 + DigitVal(s[i]) > 255 THEN NoIP
       ELSE ParseIPv4Loop(s, i + 1, val * 10 + DigitVal(s[i]), digLen + 1, fields)
  ELSE IF s[i] = "."
  THEN IF i = 1 \/ i = Len(s) \/ s[i - 1] = "." THEN NoIP
       ELSE IF Len(fields) = 3 THEN NoIP
       ELSE ParseIPv4Loop(s, i + 1, 0, 0, Append(fields, val))
  ELSE NoIP

ParseIPv4(s) == IF Len(s) = 0 THEN NoIP ELSE ParseIPv4Loop(s, 1, 0, 0, <<>>)

v4InV6Prefix == <<0, 0, 0, 0, 0, 0, 0, 0, 0, 0, 255, 255>>

Zeros(n) == [i \in 1..n |-> 0]

\* the length of the run of hex digits at the head of s (at most 5 are read)
RECURSIVE HexRun(_, _)
HexRun(s, off) ==
  IF off < Len(s) /\ off < 5 /\ IsHex(s[off + 1]) THEN HexRun(s, off + 1) ELSE off

RECURSIVE HexAcc(_, _, _)
HexAcc(s, off, acc) ==
  IF off = 0 THEN acc ELSE HexAcc(Tail(s), off - 1, acc * 16 + HexVal(Head(s)))

\* netip.parseIPv6: ip is the bytes written so far, ellipsis the byte index
\* of "::" (-1 when none was seen). Yields 16 bytes or NoIP.
RECURSIVE ParseIPv6Loop(_, _, _)
ParseIPv6Loop(s, ip, ellipsis) ==
  LET i == Len(ip)
      Finish(bytes, rest) ==
        IF Len(rest) # 0 THEN NoIP
        ELSE IF Len(bytes) < 16
        THEN IF ellipsis < 0 THEN NoIP
             ELSE SubSeq(bytes, 1, ellipsis) \o Zeros(16 - Len(bytes))
                    \o SubSeq(bytes, ellipsis + 1, Len(bytes))
        ELSE IF ellipsis >= 0 THEN NoIP ELSE bytes
  IN
  IF i >= 16 THEN Finish(ip, s)
  ELSE
    LET off == HexRun(s, 0)
        acc == HexAcc(s, off, 0)
    IN
    IF off > 4 THEN NoIP
    ELSE IF off = 0 THEN NoIP
    ELSE IF off < Len(s) /\ s[off + 1] = "."
    THEN IF ellipsis < 0 /\ i # 12 THEN NoIP
         ELSE IF i + 4 > 16 THEN NoIP
         ELSE LET ip4 == ParseIPv4(s) IN
              IF ip4 = NoIP THEN NoIP ELSE Finish(ip \o ip4, <<>>)
    ELSE
      LET ip2 == ip \o <<acc \div 256, acc % 256>>
          s2 == Suffix(s, off + 1)
      IN
      IF Len(s2) = 0 THEN Finish(ip2, s2)
      ELSE IF s2[1] # ":" THEN NoIP
      ELSE IF Len(s2) = 1 THEN NoIP
      ELSE IF s2[2] = ":"
      THEN IF ellipsis >= 0 THEN NoIP
           ELSE IF Len(s2) = 2 THEN
             \* "::" ends the text: the loop breaks with the rest empty
             IF Len(ip2) < 16
             THEN SubSeq(ip2, 1, Len(ip2)) \o Zeros(16 - Len(ip2))
             ELSE NoIP
           ELSE ParseIPv6Loop(Suffix(s2, 3), ip2, Len(ip2))
      ELSE ParseIPv6Loop(Suffix(s2, 2), ip2, ellipsis)

ParseIPv6(s) ==
  IF Len(s) >= 2 /\ s[1] = ":" /\ s[2] = ":"
  THEN IF Len(s) = 2 THEN Zeros(16) ELSE ParseIPv6Loop(Suffix(s, 3), <<>>, 0)
  ELSE ParseIPv6Loop(s, <<>>, -1)

\* netip.ParseAddr: the first of '.', ':' and '%' decides the family; a zone
\* ('%') is refused by net.ParseIP and net.ParseCIDR. IPv4 comes back in its
\* 16-byte IPv4-in-IPv6 form, as net.ParseIP returns it.
RECURSIVE ParseAddrFrom(_, _)
ParseAddrFrom(s, i) ==
  IF i > Len(s) THEN NoIP
  ELSE IF s[i] = "." THEN
    LET ip4 == ParseIPv4(s) IN
    IF ip4 = NoIP THEN NoIP ELSE v4InV6Prefix \o ip4
  ELSE IF s[i] = ":" THEN
    IF \E j \in 1..Len(s) : s[j] = "%" THEN NoIP ELSE ParseIPv6(s)
  ELSE IF s[i] = "%" THEN NoIP
  ELSE ParseAddrFrom(s, i + 1)

ParseIP(s) == ParseAddrFrom(s, 1)

\* ------------------------------------------------------------ package net
RECURSIVE BitAnd(_, _)
BitAnd(a, b) ==
  IF a = 0 \/ b = 0 THEN 0
  ELSE 2 * BitAnd(a \div 2, b \div 2) + (IF a % 2 = 1 /\ b % 2 = 1 THEN 1 ELSE 0)

\* net.IP.To4: the 4-byte form of an IPv4 address, empty for any other address
To4(ip) ==
  IF Len(ip) = 4 THEN ip
  ELSE IF Len(ip) = 16 /\ SubSeq(ip, 1, 12) = v4InV6Prefix THEN SubSeq(ip, 13, 16)
  ELSE NoIP

\* net.IP.Equal: a 4-byte address equals its 16-byte IPv4-in-IPv6 form
IPEqual(ip, x) ==
  \/ ip = x
  \/ Len(ip) = 4 /\ Len(x) = 16 /\ x = v4InV6Prefix \o ip
  \/ Len(ip) = 16 /\ Len(x) = 4 /\ ip = v4InV6Prefix \o x

IsPrivate(ip) ==
  IF To4(ip) # NoIP
  THEN LET ip4 == To4(ip) IN
       \/ ip4[1] = 10
       \/ ip4[1] = 172 /\ BitAnd(ip4[2], 240) = 16
       \/ ip4[1] = 192 /\ ip4[2] = 168
  ELSE Len(ip) = 16 /\ BitAnd(ip[1], 254) = 252

IsLoopback(ip) ==
  IF To4(ip) # NoIP THEN To4(ip)[1] = 127
  ELSE IPEqual(ip, Zeros(15) \o <<1>>)

IsUnspecified(ip) == IPEqual(ip, Zeros(4)) \/ IPEqual(ip, Zeros(16))

IsMulticast(ip) ==
  IF To4(ip) # NoIP THEN BitAnd(To4(ip)[1], 240) = 224
  ELSE Len(ip) = 16 /\ ip[1] = 255

\* net.dtoi over the whole mask text: -1 unless it is all digits, not empty
\* and below the parser's cap
RECURSIVE Dtoi(_, _, _)
Dtoi(s, i, n) ==
  IF i > Len(s) THEN (IF i = 1 THEN -1 ELSE n)
  ELSE IF ~IsDigit(s[i]) THEN -1
  ELSE IF n * 10 + DigitVal(s[i]) >= 16777215 THEN -1
  ELSE Dtoi(s, i + 1, n * 10 + DigitVal(s[i]))

\* net.CIDRMask(ones, bits) as bytes
CIDRMask(ones, bits) ==
  [i \in 1..(bits \div 8) |->
     IF ones >= 8 * i THEN 255
     ELSE IF ones <= 8 * (i - 1) THEN 0
     ELSE 256 - 2 ^ (8 * i - ones)]

\* net.IP.Mask
IPMask(ip, mask) ==
  LET m == IF Len(mask) = 16 /\ Len(ip) = 4 /\ SubSeq(mask, 1, 12) = [i \in 1..12 |-> 255]
           THEN SubSeq(mask, 13, 16) ELSE mask
      a == IF Len(m) = 4 /\ Len(ip) = 16 /\ SubSeq(ip, 1, 12) = v4InV6Prefix
           THEN SubSeq(ip, 13, 16) ELSE ip
  IN IF Len(a) # Len(m) THEN NoIP
     ELSE [i \in 1..Len(a) |-> BitAnd(a[i], m[i])]

\* net.ParseCIDR: a pointer to the IPNet [IP, Mask] of "address/bits", nil on
\* any error
ParseCIDR(s) ==
  LET i == IndexByte(s, "/") IN
  IF i = 0 THEN NilPtr
  ELSE
    LET addr == SubSeq(s, 1, i - 1)
        mask == Suffix(s, i + 1)
        ipAddr == ParseIP(addr)
        n == Dtoi(mask, 1, 0)
    IN
    IF ipAddr = NoIP \/ n < 0 THEN NilPtr
    ELSE
      LET bitLen == IF To4(ipAddr) # NoIP /\ IndexByte(addr, ":") = 0 THEN 32 ELSE 128
      IN IF n > bitLen THEN NilPtr
         ELSE Ref([IP |-> IPMask(ipAddr, CIDRMask(n, bitLen)),
                   Mask |-> CIDRMask(n, bitLen)])

\* net.IPNet.Contains
Contains(ipNet, ip) ==
  LET nn == IF To4(ipNet.IP) # NoIP THEN To4(ipNet.IP) ELSE ipNet.IP
      m == IF Len(ipNet.Mask) = 16 /\ Len(nn) = 4
           THEN SubSeq(ipNet.Mask, 13, 16) ELSE ipNet.Mask
      x == IF To4(ip) # NoIP THEN To4(ip) ELSE ip
  IN /\ Len(x) = Len(nn)
     /\ Len(m) = Len(nn)
     /\ \A i \in 1..Len(x) : BitAnd(nn[i], m[i]) = BitAnd(x[i], m[i])

\* ----------------------------------------------------------- the program
VARIABLES
  githubMetaURL,  \* the package variable githubMetaURL
  meta,           \* IPChecker.meta: nil or a pointer to the decoded GitHubMeta
  pc,             \* "idle", or "blocked" while http.Get waits for a response
  httpRequests,   \* the outbound HTTP requests the instance has issued
  call,           \* the last CheckIP call: its argument and what it returned
  proc            \* the last run of main: its arguments, output and exit code

vars == <<githubMetaURL, meta, pc, httpRequests, call, proc>>

\* ------------------------------------------------------------ bounds
MaxEntries == 2

MaxRequests == 2

\* ------------------------------------------------------------ GitHubMeta
\* the json tags of GitHubMeta's fields, in field order
JsonKeys ==
  <<"hooks", "web", "api", "git", "packages", "pages", "importer", "actions",
    "dependabot", "actions_ipv4">>

\* the names CheckIP gives the categories, in scan order
CategoryNames ==
  <<"Hooks", "Web", "API", "Git", "Packages", "Pages", "Importer", "Actions",
    "Dependabot", "Actions IPv4">>

\* var meta GitHubMeta: every field the nil slice
ZeroMeta == [k \in 1..10 |-> <<>>]

\* JSON values of an object's keys: an array of strings, or a value that is
\* not an array
Arr(strings) == [array |-> strings]

Scalar == [scalar |-> TRUE]

\* json.Decoder.Decode into GitHubMeta. A body is [json |-> "invalid"] (not
\* JSON), [json |-> "null"], or [json |-> "object", fields |-> f] where f
\* maps some keys to Arr(..) or Scalar. Unknown keys are ignored; a key that
\* is absent leaves its field nil; a known key that holds no array is an
\* UnmarshalTypeError. Yields a pointer to the decoded value, nil on an error.
Decode(body) ==
  IF body.json = "invalid" THEN NilPtr
  ELSE IF body.json = "null" THEN Ref(ZeroMeta)
  ELSE IF \E k \in 1..10 : JsonKeys[k] \in DOMAIN body.fields
                           /\ "array" \notin DOMAIN body.fields[JsonKeys[k]]
  THEN NilPtr
  ELSE Ref([k \in 1..10 |->
              IF JsonKeys[k] \in DOMAIN body.fields
              THEN body.fields[JsonKeys[k]].array
              ELSE <<>>])

\* ------------------------------------------------------------ the remote
T22 == FormatCIDR(<<192, 30, 252, 0>>, 22)

T24 == FormatCIDR(<<192, 30, 252, 0>>, 24)

\* a network written with host bits set: 192.30.252.77/22
THost22 == FormatCIDR(<<192, 30, 252, 77>>, 22)

TInvalidCidr == <<"i", "n", "v", "a", "l", "i", "d", "-", "c", "i", "d", "r">>

TNotACidr == <<"n", "o", "t", "-", "a", "-", "c", "i", "d", "r">>

TNoBits == FormatIPv4(<<192, 30, 252, 0>>) \o <<"/">>

TBits33 == FormatCIDR(<<192, 30, 252, 0>>, 33)

\* 2001:db8::/32
TV6Cidr == <<"2", "0", "0", "1", ":", "d", "b", "8", ":", ":", "/", "3", "2">>

\* ::ffff:192.30.252.0/120, the IPv4-mapped form of 192.30.252.0/24
TMappedCidr ==
  <<":", ":", "f", "f", "f", "f", ":">> \o FormatIPv4(<<192, 30, 252, 0>>)
    \o <<"/", "1", "2", "0">>

AllTen(cidr) == [k \in {JsonKeys[i] : i \in 1..10} |-> Arr(<<cidr>>)]

Object(f) == [json |-> "object", fields |-> f]

OK200(body) == [kind |-> "response", status |-> 200, body |-> body]

\* the entries a published "api" list is drawn from
EntryPool == {T22, T24, TInvalidCidr}

SeqsUpTo(S, n) == UNION {[1..k -> S] : k \in 0..n}

\* the "git" lists published beside it
GitLists == {<<THost22>>, <<TNoBits, TV6Cidr, TBits33, TMappedCidr>>}

PublishedBodies ==
  { Object([api |-> Arr(a), git |-> Arr(g), domains |-> Scalar]) :
      a \in SeqsUpTo(EntryPool, MaxEntries), g \in GitLists }

DefaultURL == "https://api.github.com/meta"

URLs ==
  { DefaultURL, "successServer", "errorServer", "invalidJSONServer",
    "invalidCIDRServer", "mixedCIDRServer", "failingTransport",
    "typeErrorServer", "silentServer" }

\* what http.Get(url) can meet: a transport failure, a response, or a server
\* that accepts the connection and never answers
Responses(url) ==
  CASE url = DefaultURL -> {OK200(b) : b \in PublishedBodies}
    [] url = "successServer" -> {OK200(Object(AllTen(T22)))}
    [] url = "errorServer" ->
         {[kind |-> "response", status |-> 500, body |-> [json |-> "invalid"]]}
    [] url = "invalidJSONServer" -> {OK200([json |-> "invalid"])}
    [] url = "invalidCIDRServer" ->
         {OK200(Object([hooks |-> Arr(<<TInvalidCidr>>), web |-> Arr(<<TNotACidr>>),
                        api |-> Arr(<<T22>>), git |-> Arr(<<T22>>)]))}
    [] url = "mixedCIDRServer" ->
         {OK200(Object([hooks |-> Arr(<<TInvalidCidr, TNotACidr>>),
                        web |-> Arr(<<TNotACidr>>), api |-> Arr(<<TInvalidCidr>>),
                        git |-> Arr(<<T22>>)]))}
    [] url = "failingTransport" -> {[kind |-> "transport"]}
    [] url = "typeErrorServer" ->
         {OK200(Object([hooks |-> Arr(<<T22>>), web |-> Scalar]))}
    [] url = "silentServer" -> {[kind |-> "hang"]}

\* ------------------------------------------------------------ IPChecker
\* fmt.Errorf: an error's text is a sequence of string tokens, and %w splices
\* the wrapped error's text in
Errorf(prefix, err) == <<prefix>> \o err

ErrInvalidFormat == <<"invalid IP address format">>

ErrOnlyIPv4 == <<"only IPv4 addresses are supported">>

ErrNotRoutable == <<"IP address must be a public, routable address">>

\* the text http.Get's transport error and the json decoder's error carry
ErrTransport == <<"Get: transport failure">>

ErrJSON == <<"json: cannot decode">>

\* isBroadcastAddress left out of the routability test
isBroadcastAddressOmitted(ip) == FALSE

isBroadcastAddress(ip) == \A i \in 1..Len(ip) : ip[i] = 255

\* validation testing routability on the parsed address before reducing it to
\* four octets
ValidateRoutableFirst(ipStr) ==
  LET ip == ParseIP(ipStr) IN
  IF ip = NoIP THEN [ip |-> NoIP, err |-> ErrInvalidFormat]
  ELSE IF IsPrivate(ip) \/ IsLoopback(ip) \/ IsUnspecified(ip) \/ IsMulticast(ip)
          \/ isBroadcastAddress(ip)
  THEN [ip |-> NoIP, err |-> ErrNotRoutable]
  ELSE IF To4(ip) = NoIP THEN [ip |-> NoIP, err |-> ErrOnlyIPv4]
  ELSE [ip |-> To4(ip), err |-> NoErr]

\* CheckIP's validation: [ip, err], ip the 4-byte address when err is NoErr
Validate(ipStr) ==
  LET ip == ParseIP(ipStr) IN
  IF ip = NoIP THEN [ip |-> NoIP, err |-> ErrInvalidFormat]
  ELSE IF To4(ip) = NoIP THEN [ip |-> NoIP, err |-> ErrOnlyIPv4]
  ELSE
    LET ip4 == To4(ip) IN
    IF IsPrivate(ip4) \/ IsLoopback(ip4) \/ IsUnspecified(ip4) \/ IsMulticast(ip4)
       \/ isBroadcastAddress(ip4)
    THEN [ip |-> NoIP, err |-> ErrNotRoutable]
    ELSE [ip |-> ip4, err |-> NoErr]

\* fetchGitHubMeta storing the value it decoded into when decoding fails
fetchGitHubMetaKeepsPartial(old, resp) ==
  IF resp.kind = "transport"
  THEN [meta |-> old, err |-> Errorf("failed to fetch GitHub meta: ", ErrTransport)]
  ELSE IF resp.status # 200
  THEN [meta |-> old,
        err |-> <<"GitHub API returned status code ">> \o FormatDec(resp.status)]
  ELSE IF Decode(resp.body) = NilPtr
  THEN [meta |-> Ref(ZeroMeta),
        err |-> Errorf("failed to decode GitHub meta response: ", ErrJSON)]
  ELSE [meta |-> Decode(resp.body), err |-> NoErr]

\* fetchGitHubMeta decoding the body without looking at the status code
fetchGitHubMetaNoStatusCheck(old, resp) ==
  IF resp.kind = "transport"
  THEN [meta |-> old, err |-> Errorf("failed to fetch GitHub meta: ", ErrTransport)]
  ELSE IF Decode(resp.body) = NilPtr
  THEN [meta |-> old,
        err |-> Errorf("failed to decode GitHub meta response: ", ErrJSON)]
  ELSE [meta |-> Decode(resp.body), err |-> NoErr]

\* fetchGitHubMeta against the response resp (not a hanging one): [meta, err],
\* meta being what c.meta is afterwards
fetchGitHubMeta(old, resp) ==
  IF resp.kind = "transport"
  THEN [meta |-> old, err |-> Errorf("failed to fetch GitHub meta: ", ErrTransport)]
  ELSE IF resp.status # 200
  THEN [meta |-> old,
        err |-> <<"GitHub API returned status code ">> \o FormatDec(resp.status)]
  ELSE IF Decode(resp.body) = NilPtr
  THEN [meta |-> old,
        err |-> Errorf("failed to decode GitHub meta response: ", ErrJSON)]
  ELSE [meta |-> Decode(resp.body), err |-> NoErr]

\* the inner loop looking at the first entry of the category only
ScanCategoryFirstOnly(cidrs, j, ip) ==
  IF j > Len(cidrs) THEN 0
  ELSE LET ipNet == ParseCIDR(cidrs[j]) IN
       IF ipNet # NilPtr /\ Contains(Deref(ipNet), ip) THEN j ELSE 0

\* the inner loop leaving the category at an entry that does not parse
RECURSIVE ScanCategoryStopsAtMalformed(_, _, _)
ScanCategoryStopsAtMalformed(cidrs, j, ip) ==
  IF j > Len(cidrs) THEN 0
  ELSE LET ipNet == ParseCIDR(cidrs[j]) IN
       IF ipNet = NilPtr THEN 0
       ELSE IF Contains(Deref(ipNet), ip) THEN j
       ELSE ScanCategoryStopsAtMalformed(cidrs, j + 1, ip)

\* the inner loop: the first entry of cidrs, from position j on, that parses
\* and contains ip; 0 when there is none
RECURSIVE ScanCategory(_, _, _)
ScanCategory(cidrs, j, ip) ==
  IF j > Len(cidrs) THEN 0
  ELSE LET ipNet == ParseCIDR(cidrs[j]) IN
       IF ipNet = NilPtr THEN ScanCategory(cidrs, j + 1, ip)
       ELSE IF Contains(Deref(ipNet), ip) THEN j
       ELSE ScanCategory(cidrs, j + 1, ip)

\* the list built with Git ahead of API
RangesGitBeforeAPI(m) ==
  [k \in 1..10 |->
     LET f == IF k = 3 THEN 4 ELSE IF k = 4 THEN 3 ELSE k
     IN [name |-> CategoryNames[f], ranges |-> m[f]]]

\* the list of {name, ranges} CheckIP builds from c.meta
Ranges(m) == [k \in 1..10 |-> [name |-> CategoryNames[k], ranges |-> m[k]]]

NotGitHub == [IsGitHubIP |-> FALSE, FunctionalArea |-> "", Range |-> <<>>]

\* the outer loop, from category k on
RECURSIVE ScanRanges(_, _, _)
ScanRanges(ranges, k, ip) ==
  IF k > Len(ranges) THEN NotGitHub
  ELSE LET j == ScanCategory(ranges[k].ranges, 1, ip) IN
       IF j # 0
       THEN [IsGitHubIP |-> TRUE,
             FunctionalArea |-> ranges[k].name,
             Range |-> ranges[k].ranges[j]]
       ELSE ScanRanges(ranges, k + 1, ip)

\* fetching on every call
NeedsFetchAlways(m) == TRUE

\* whether CheckIP fetches: only when nothing is cached
NeedsFetch(m) == m = NilPtr

\* CheckIP fetching before it validates: a call with a rejected address has
\* made its request and cached what came back
CheckIPFetchFirst(m, ipStr, resp) ==
  IF Validate(ipStr).err # NoErr
  THEN [result |-> NilPtr, err |-> Validate(ipStr).err,
        meta |-> IF NeedsFetch(m) THEN Ref(ZeroMeta) ELSE m,
        requests |-> IF NeedsFetch(m) THEN 1 ELSE 0, returns |-> TRUE]
  ELSE IF NeedsFetch(m) /\ resp.kind = "hang"
  THEN [result |-> NilPtr, err |-> NoErr, meta |-> m, requests |-> 1,
        returns |-> FALSE]
  ELSE IF NeedsFetch(m) /\ fetchGitHubMeta(m, resp).err # NoErr
  THEN [result |-> NilPtr,
        err |-> Errorf("failed to fetch GitHub meta: ", fetchGitHubMeta(m, resp).err),
        meta |-> m, requests |-> 1, returns |-> TRUE]
  ELSE IF NeedsFetch(m)
  THEN [result |-> Ref(ScanRanges(Ranges(Deref(fetchGitHubMeta(m, resp).meta)), 1,
                                  Validate(ipStr).ip)),
        err |-> NoErr, meta |-> fetchGitHubMeta(m, resp).meta, requests |-> 1,
        returns |-> TRUE]
  ELSE [result |-> Ref(ScanRanges(Ranges(Deref(m)), 1, Validate(ipStr).ip)),
        err |-> NoErr, meta |-> m, requests |-> 0, returns |-> TRUE]

\* CheckIP(ipStr) on an instance whose c.meta is m, the remote answering resp
\* if it is asked: [result, err, meta, requests, returns]. result is a pointer
\* to a CheckResult; returns is FALSE when http.Get never comes back.
CheckIP(m, ipStr, resp) ==
  LET v == Validate(ipStr) IN
  IF v.err # NoErr
  THEN [result |-> NilPtr, err |-> v.err, meta |-> m, requests |-> 0,
        returns |-> TRUE]
  ELSE IF NeedsFetch(m)
  THEN IF resp.kind = "hang"
       THEN [result |-> NilPtr, err |-> NoErr, meta |-> m, requests |-> 1,
             returns |-> FALSE]
       ELSE LET f == fetchGitHubMeta(m, resp) IN
            IF f.err # NoErr
            THEN [result |-> NilPtr,
                  err |-> Errorf("failed to fetch GitHub meta: ", f.err),
                  meta |-> f.meta, requests |-> 1, returns |-> TRUE]
            ELSE [result |-> Ref(ScanRanges(Ranges(Deref(f.meta)), 1, v.ip)),
                  err |-> NoErr, meta |-> f.meta, requests |-> 1,
                  returns |-> TRUE]
  ELSE [result |-> Ref(ScanRanges(Ranges(Deref(m)), 1, v.ip)), err |-> NoErr,
        meta |-> m, requests |-> 0, returns |-> TRUE]

\* ----------------------------------------------------------------- main
ErrNotOwned == <<"The provided IP address is not a GitHub-owned address">>

\* a command-line argument is a flag, [flag |-> name], or a positional
\* argument, [pos |-> text]
Flag(name) == [flag |-> name]

Pos(text) == [pos |-> text]

\* pflag's parse of the arguments, from position i on, for a command that
\* defines --silent/-s (and cobra's --help/-h): it stops at the first unknown
\* flag, the flags before it staying set
RECURSIVE ParseFlags(_, _, _)
ParseFlags(args, i, acc) ==
  IF i > Len(args) THEN acc
  ELSE IF "pos" \in DOMAIN args[i]
  THEN ParseFlags(args, i + 1, [acc EXCEPT !.positional = Append(@, args[i].pos)])
  ELSE IF args[i].flag \in {"-s", "--silent", "--silent=true"}
  THEN ParseFlags(args, i + 1, [acc EXCEPT !.silent = TRUE, !.changed = TRUE])
  ELSE IF args[i].flag = "--silent=false"
  THEN ParseFlags(args, i + 1, [acc EXCEPT !.silent = FALSE, !.changed = TRUE])
  ELSE IF args[i].flag \in {"-h", "--help"}
  THEN ParseFlags(args, i + 1, [acc EXCEPT !.help = TRUE])
  ELSE [acc EXCEPT !.err = <<"unknown flag: ", args[i].flag>>]

NoFlags ==
  [err |-> NoErr, silent |-> FALSE, changed |-> FALSE, help |-> FALSE,
   positional |-> <<>>]

\* the line runCommand prints for a member
MemberLine(ipAddress, result) ==
  <<"IP ">> \o ipAddress \o <<" belongs to GitHub's ", result.FunctionalArea,
                               " range (">> \o result.Range \o <<")">>

\* what a run records of its CheckIP call: whether it was made, and the
\* result and error it returned
NoCheck == [ran |-> FALSE, result |-> NilPtr, err |-> NoErr]

Checked(r) == [ran |-> TRUE, result |-> r.result, err |-> r.err]

\* runCommand once checker.CheckIP(ipAddress) has come to r
runCommandChecked(ipAddress, silent, r) ==
  IF ~r.returns
  THEN [err |-> NoErr, stdout |-> <<>>, returns |-> FALSE, check |-> NoCheck]
  ELSE IF r.err # NoErr
  THEN [err |-> r.err, stdout |-> <<>>, returns |-> TRUE, check |-> Checked(r)]
  ELSE IF ~Deref(r.result).IsGitHubIP
  THEN [err |-> ErrNotOwned, stdout |-> <<>>, returns |-> TRUE,
        check |-> Checked(r)]
  ELSE [err |-> NoErr,
        stdout |-> IF silent THEN <<>>
                   ELSE <<MemberLine(ipAddress, Deref(r.result))>>,
        returns |-> TRUE, check |-> Checked(r)]

\* runCommand on a new IPChecker: [err, stdout, returns, check]
runCommand(ipAddress, silent, resp) ==
  runCommandChecked(ipAddress, silent, CheckIP(NilPtr, ipAddress, resp))

\* cobra's dispatch of the parsed command line f, RunE being run
Dispatch(f, run) ==
  IF f.err # NoErr
  THEN [err |-> f.err, stdout |-> <<>>, changed |-> f.changed, returns |-> TRUE,
        check |-> NoCheck]
  ELSE IF f.help
  THEN [err |-> NoErr, stdout |-> <<<<"help">>>>, changed |-> f.changed,
        returns |-> TRUE, check |-> NoCheck]
  ELSE IF Len(f.positional) # 1
  THEN [err |-> <<"accepts 1 arg(s), received ">> \o FormatDec(Len(f.positional)),
        stdout |-> <<>>, changed |-> f.changed, returns |-> TRUE,
        check |-> NoCheck]
  ELSE [err |-> run.err, stdout |-> run.stdout, changed |-> f.changed,
        returns |-> run.returns, check |-> run.check]

\* the positional argument RunE is given
FirstArg(f) == IF Len(f.positional) = 1 THEN f.positional[1] ELSE <<>>

\* RunE: runCommand with the positional argument and the silent flag
RunE(f, resp) == runCommand(FirstArg(f), f.silent, resp)

\* Execute on the parsed command line f
ExecuteParsed(f, resp) == Dispatch(f, RunE(f, resp))

\* cmd.Execute with Args: cobra.ExactArgs(1), SilenceUsage and SilenceErrors:
\* [err, stdout, changed, returns, check]
Execute(args, resp) == ExecuteParsed(ParseFlags(args, 1, NoFlags), resp)

\* the not-owned error taken for any other error
ExitCodeNotOwnedAsError(err) == IF err = NoErr THEN 0 ELSE 2

\* two exit codes only: 1 for every error
ExitCodeTwoCodes(err) == IF err = NoErr THEN 0 ELSE 1

\* the exit code main chooses for the error Execute returned
ExitCode(err) ==
  IF err = NoErr THEN 0
  ELSE IF err = ErrNotOwned THEN 1
  ELSE 2

\* what main writes to stderr for the error Execute returned
Stderr(err, changed) ==
  IF err = NoErr \/ changed THEN <<>>
  ELSE IF err = ErrNotOwned THEN <<err>>
  ELSE <<<<"Error: ">> \o err>>

\* main once cmd.Execute() has come to e
Exit(args, e) ==
  IF ~e.returns
  THEN [state |-> "hung", args |-> args, exit |-> -1, stdout |-> <<>>,
        stderr |-> <<>>, check |-> NoCheck]
  ELSE [state |-> "exited", args |-> args, exit |-> ExitCode(e.err),
        stdout |-> e.stdout, stderr |-> Stderr(e.err, e.changed),
        check |-> e.check]

\* one run of main: the process's arguments, output and exit code
Main(args, resp) == Exit(args, Execute(args, resp))

\* -------------------------------------------------------------- the inputs
A1 == <<192, 30, 252, 1>>

A2 == <<192, 30, 253, 1>>

Google == <<8, 8, 8, 8>>

TInvalidIP == <<"i", "n", "v", "a", "l", "i", "d", "-", "i", "p">>

\* 2001:db8::1
TDocV6 == <<"2", "0", "0", "1", ":", "d", "b", "8", ":", ":", "1">>

\* the addresses CheckIP is called with
CallInputs ==
  { FormatIPv4(A1), FormatIPv4(A2), FormatIPv4(Google), TInvalidIP, TDocV6,
    FormatIPv4(<<192, 168, 1, 1>>) }

\* the command lines main is run with
ArgLists ==
  {<<>>, <<Flag("--help")>>, <<Flag("-s")>>,
   <<Pos(FormatIPv4(A1)), Pos(FormatIPv4(Google))>>,
   <<Pos(FormatIPv4(A1)), Flag("--bogus")>>,
   <<Flag("-s"), Flag("--bogus"), Pos(FormatIPv4(A1))>>}
    \cup {<<Pos(t)>> : t \in CallInputs}
    \cup {<<Pos(t), Flag("-s")>> : t \in CallInputs}
    \cup {<<Flag("--silent=false"), Pos(t)>> : t \in CallInputs}

\* ------------------------------------------------------------ the actions
NoCall ==
  [state |-> "none", ipStr |-> <<>>, result |-> NilPtr, err |-> NoErr,
   requests |-> 0]

NoProc ==
  [state |-> "none", args |-> <<>>, exit |-> -1, stdout |-> <<>>,
   stderr |-> <<>>, check |-> NoCheck]

\* NewIPChecker(), the package variable githubMetaURL being url
InitAt(url) ==
  /\ githubMetaURL = url
  /\ meta = NilPtr
  /\ pc = "idle"
  /\ httpRequests = 0
  /\ call = NoCall
  /\ proc = NoProc

\* the package variable starts at GitHub's endpoint
Init == InitAt(DefaultURL)

NoResponse == [kind |-> "none"]

\* the responses a CheckIP(ipStr) call can meet: those of the endpoint when
\* the call gets as far as http.Get, none otherwise
Asked(m, ipStr) ==
  IF Validate(ipStr).err = NoErr /\ NeedsFetch(m)
  THEN Responses(githubMetaURL)
  ELSE {NoResponse}

\* c.CheckIP(ipStr) on the instance
CheckIPCall(ipStr) ==
  /\ pc = "idle"
  /\ \E resp \in Asked(meta, ipStr) : \E r \in {CheckIP(meta, ipStr, resp)} :
       /\ httpRequests + r.requests <= MaxRequests
       /\ meta' = r.meta
       /\ httpRequests' = httpRequests + r.requests
       /\ pc' = IF r.returns THEN "idle" ELSE "blocked"
       /\ call' = [state |-> IF r.returns THEN "returned" ELSE "pending",
                   ipStr |-> ipStr, result |-> r.result, err |-> r.err,
                   requests |-> r.requests]
  /\ UNCHANGED <<githubMetaURL, proc>>

\* githubMetaURL = url (the package variable is assignable)
SetURL(url) ==
  /\ pc = "idle"
  /\ url # githubMetaURL
  /\ githubMetaURL' = url
  /\ UNCHANGED <<meta, pc, httpRequests, call, proc>>

\* main() run as a process with the arguments args
RunMain(args) ==
  /\ pc = "idle"
  /\ \E resp \in Asked(NilPtr, FirstArg(ParseFlags(args, 1, NoFlags))) :
     \E p \in {Main(args, resp)} :
       /\ proc' = p
       /\ pc' = IF p.state = "hung" THEN "blocked" ELSE "idle"
  /\ UNCHANGED <<githubMetaURL, meta, httpRequests, call>>

Next ==
  \/ \E url \in URLs : SetURL(url)
  \/ \E ipStr \in CallInputs : CheckIPCall(ipStr)

Spec == Init /\ [][Next]_vars

MainNext ==
  \/ \E args \in ArgLists : RunMain(args)
  \/ \E url \in URLs : SetURL(url)

MainSpec == Init /\ [][MainNext]_vars

\* --------------------------------------------- validation, input by input
\* octets around the edges of the reserved blocks
FirstOctets == {0, 8, 10, 126, 127, 172, 192, 223, 224, 239, 240, 255}

SecondOctets == {0, 15, 16, 31, 32, 168, 255}

LastOctets == {<<0, 0>>, <<0, 1>>, <<255, 255>>}

TestOctets ==
  {<<a, 0, c[1], c[2]>> : a \in FirstOctets, c \in LastOctets}
    \cup {<<a, b, c[1], c[2]>> : a \in {172, 192, 255}, b \in SecondOctets,
                                c \in LastOctets}

\* ::ffff:a.b.c.d
FormatMapped(o) == <<":", ":", "f", "f", "f", "f", ":">> \o FormatIPv4(o)

MappedOctets ==
  {Google, <<10, 0, 0, 1>>, <<127, 0, 0, 1>>, <<255, 255, 255, 255>>,
   <<0, 0, 0, 0>>, <<224, 0, 0, 1>>}

\* texts that are no IP address: words, the empty text, short and long dotted
\* forms, an octet over 255, a leading zero, a zone, a lone colon
MalformedTexts ==
  { TInvalidIP, <<>>, <<"1", ".", "2", ".", "3">>,
    <<"1", ".", "2", ".", "3", ".", "4", ".", "5">>,
    <<"2", "5", "6", ".", "1", ".", "1", ".", "1">>,
    <<"0", "1", ".", "1", ".", "1", ".", "1">>,
    <<"1", ".", "2", ".", ".", "4">>,
    <<"f", "e", "8", "0", ":", ":", "1", "%", "e", "t", "h", "0">>,
    <<":">>, <<"1", ":", "2">>, <<"1", ":", ":", "2", ":", ":", "3">>,
    <<"1", "2", "3", "4", "5", ":", ":">>, T22 }

\* 2001:db8::1, ::1, ::, fc00::1, ff02::1, 1:2:3:4:5:6:7:8, ::1.2.3.4
IPv6Texts ==
  { TDocV6, <<":", ":", "1">>, <<":", ":">>,
    <<"f", "c", "0", "0", ":", ":", "1">>, <<"f", "f", "0", "2", ":", ":", "1">>,
    <<"1", ":", "2", ":", "3", ":", "4", ":", "5", ":", "6", ":", "7", ":", "8">>,
    <<":", ":", "1", ".", "2", ".", "3", ".", "4">> }

ValidationInputs ==
  {FormatIPv4(o) : o \in TestOctets} \cup {FormatMapped(o) : o \in MappedOctets}
    \cup MalformedTexts \cup IPv6Texts

\* a new IPChecker with githubMetaURL overridden to a test server, as the
\* tests set it up, called with one address after another
ValidationNext == \E ipStr \in ValidationInputs : CheckIPCall(ipStr)

ValidationSpec == InitAt("mixedCIDRServer") /\ [][ValidationNext]_vars

\* the caller runs whenever it can: a step that is possible is taken
LiveSpec == Spec /\ WF_vars(Next)

\* ------------------------------------------------------------ the claims
\* the address of the last call, as four octets
CallAddr == To4(ParseIP(call.ipStr))

\* entry j of category k of the RangeSet m parses and contains ip
Matches(m, k, j, ip) ==
  LET ipNet == ParseCIDR(m[k][j]) IN ipNet # NilPtr /\ Contains(Deref(ipNet), ip)

AnyMatch(m, ip) == \E k \in 1..10 : \E j \in 1..Len(m[k]) : Matches(m, k, j, ip)

\* the last call returned a CheckResult
Classified == call.state = "returned" /\ call.result # NilPtr

IsMember == Classified /\ Deref(call.result).IsGitHubIP

ValidationErrors == {ErrInvalidFormat, ErrOnlyIPv4, ErrNotRoutable}

\* the last run of main made its CheckIP call and got this outcome
RunMember ==
  proc.check.ran /\ proc.check.result # NilPtr
    /\ Deref(proc.check.result).IsGitHubIP

RunNotMember ==
  proc.check.ran /\ proc.check.result # NilPtr
    /\ ~Deref(proc.check.result).IsGitHubIP

RunCheckError == proc.check.ran /\ proc.check.err # NoErr

RunMissingArgument ==
  \A i \in 1..Len(proc.args) : "flag" \in DOMAIN proc.args[i]
                               /\ proc.args[i].flag \in {"-s", "--silent=false"}

C2_FirstMatch ==
  IsMember =>
    LET m == Deref(meta)
        r == Deref(call.result)
    IN \E k \in 1..10 : \E j \in 1..Len(m[k]) :
         /\ r.FunctionalArea = CategoryNames[k]
         /\ r.Range = m[k][j]
         /\ Matches(m, k, j, CallAddr)
         /\ \A k2 \in 1..k : \A j2 \in 1..Len(m[k2]) :
              (k2 < k \/ j2 < j) => ~Matches(m, k2, j2, CallAddr)

\* a member found in Git, behind an API list that holds only entries which
\* do not contain it, the Git entry being written with host bits set
C2_Witness ==
  /\ IsMember
  /\ Deref(call.result).FunctionalArea = "Git"
  /\ Deref(call.result).Range = THost22
  /\ Len(Deref(meta)[3]) = MaxEntries

\* C3: a call that gets as far as classifying answers IsGitHubIP = TRUE
\* exactly when some parseable entry of some category contains the address;
\* otherwise the result is FALSE with empty area and range, and no error.
C3_MemberIffSomeRange ==
  Classified =>
    /\ Deref(call.result).IsGitHubIP = AnyMatch(Deref(meta), CallAddr)
    /\ call.err = NoErr
    /\ ~Deref(call.result).IsGitHubIP =>
         /\ Deref(call.result).FunctionalArea = ""
         /\ Deref(call.result).Range = <<>>

C3_Witness ==
  /\ Classified
  /\ ~Deref(call.result).IsGitHubIP
  /\ call.ipStr = FormatIPv4(A2)
  /\ \E j \in 1..Len(Deref(meta)[3]) : ParseCIDR(Deref(meta)[3][j]) # NilPtr

\* the RangeSet m without its entries that do not parse
Parseable(cidr) == ParseCIDR(cidr) # NilPtr

WithoutMalformed(m) == [k \in 1..10 |-> SelectSeq(m[k], Parseable)]

\* C4: malformed entries never make CheckIP fail and never stop the scan:
\* the result is the one for the RangeSet with the malformed entries removed.
C4_MalformedSkipped ==
  (call.state = "returned" /\ call.err = NoErr) =>
    /\ call.result # NilPtr
    /\ Deref(call.result)
         = ScanRanges(Ranges(WithoutMalformed(Deref(meta))), 1, CallAddr)

\* a member found behind a malformed entry of its own category
C4_Witness ==
  /\ IsMember
  /\ \E k \in 1..10 : \E j \in 2..Len(Deref(meta)[k]) :
       /\ Deref(call.result).FunctionalArea = CategoryNames[k]
       /\ Deref(call.result).Range = Deref(meta)[k][j]
       /\ ~Parseable(Deref(meta)[k][j - 1])
       /\ Deref(meta)[k] # WithoutMalformed(Deref(meta))[k]

\* C5 as stated: an instance performs at most one HTTP request in total,
\* whatever the remote answers.
C5_AtMostOneRequest == httpRequests <= 1

\* C5 as amended: a CheckIP call performs at most one HTTP request, and only
\* while no RangeSet is cached.
C5_RequestOnlyWhileUncached ==
  [][/\ httpRequests' \in {httpRequests, httpRequests + 1}
     /\ httpRequests' # httpRequests => meta = NilPtr]_vars

\* the instance has made several requests, the last one filled the cache and
\* a later call was answered from it
C5_Witness ==
  /\ httpRequests = MaxRequests
  /\ meta # NilPtr
  /\ Classified
  /\ call.requests = 0

\* C6: once a fetch has succeeded, a later call performs no request and
\* classifies against the cached RangeSet, whatever githubMetaURL is and
\* whatever the remote serves then; the call that fills the cache performs
\* exactly one request.
C6_Memoized ==
  [][/\ meta # NilPtr =>
          /\ meta' = meta
          /\ httpRequests' = httpRequests
          /\ (call' # call /\ call'.result # NilPtr) =>
               Deref(call'.result)
                 = ScanRanges(Ranges(Deref(meta)), 1, To4(ParseIP(call'.ipStr)))
     /\ (meta = NilPtr /\ meta' # NilPtr) => httpRequests' = httpRequests + 1
    ]_vars

\* a call answered from the cache while githubMetaURL points at a server
\* that does not serve the cached RangeSet
C6_Witness ==
  /\ Classified
  /\ call.requests = 0
  /\ httpRequests = 1
  /\ \A resp \in Responses(githubMetaURL) :
       resp.kind # "response" \/ Decode(resp.body) # meta

Reserved(o) ==
  \/ o[1] = 10
  \/ o[1] = 172 /\ o[2] >= 16 /\ o[2] <= 31
  \/ o[1] = 192 /\ o[2] = 168
  \/ o[1] = 127
  \/ o = <<0, 0, 0, 0>>
  \/ o[1] >= 224 /\ o[1] <= 239
  \/ o = <<255, 255, 255, 255>>

FetchFailed(inner) == <<"failed to fetch GitHub meta: ">> \o inner

StatusError(digits) == FetchFailed(<<"GitHub API returned status code ">> \o digits)

\* C9: a validated call whose fetch fails returns no result and an error that
\* tells the failure: the transport error, the status error carrying the code
\* (500 for HTTP 500), or the decode error; never a validation error, never a
\* not-member result.
C9_FetchErrors ==
  [][(httpRequests' = httpRequests + 1 /\ call'.state = "returned") =>
       /\ githubMetaURL = "failingTransport" =>
            call'.err = FetchFailed(<<"failed to fetch GitHub meta: ",
                                      "Get: transport failure">>)
       /\ githubMetaURL = "errorServer" => call'.err = StatusError(<<"5", "0", "0">>)
       /\ githubMetaURL \in {"invalidJSONServer", "typeErrorServer"} =>
            call'.err = FetchFailed(<<"failed to decode GitHub meta response: ",
                                      "json: cannot decode">>)
       /\ call'.err # NoErr =>
            /\ call'.result = NilPtr
            /\ call'.err \notin ValidationErrors
            /\ meta' = meta
    ]_vars

C9_Witness ==
  /\ call.state = "returned"
  /\ call.requests = 1
  /\ call.err = StatusError(<<"5", "0", "0">>)
  /\ call.result = NilPtr

\* C10: every CheckIP call eventually returns, also when the remote accepts
\* the connection and never answers.
C10_CallReturns == [](call.state = "pending" => <>(call.state = "returned"))

\* the command line of the last run of main, parsed
RunFlags == ParseFlags(proc.args, 1, NoFlags)

\* the exit code the outcome of the check stands for
OutcomeExit == IF RunMember THEN 0 ELSE IF RunNotMember THEN 1 ELSE 2

\* C11: with the silent flag set a run that makes its check writes nothing to
\* stdout or stderr, whatever the outcome, and exits as the outcome says;
\* with the flag not set, also when it is given as false, a member outcome
\* prints the membership line and every other outcome prints its message to
\* stderr.
C11_SilentFlag ==
  (proc.state = "exited" /\ proc.check.ran) =>
    /\ RunFlags.silent =>
         /\ proc.stdout = <<>>
         /\ proc.stderr = <<>>
         /\ proc.exit = OutcomeExit
    /\ ~RunFlags.silent =>
         IF RunMember
         THEN proc.stdout = <<MemberLine(RunFlags.positional[1],
                                         Deref(proc.check.result))>>
         ELSE proc.stderr # <<>>

C13_ValidationBeforeFetch ==
  [][/\ Validate(call'.ipStr).err # NoErr =>
          /\ httpRequests' = httpRequests
          /\ meta' = meta
          /\ call'.requests = 0
     /\ (httpRequests' # httpRequests \/ meta' # meta) =>
          /\ call'.err \notin ValidationErrors
          /\ Validate(call'.ipStr).err = NoErr
          /\ meta = NilPtr
    ]_vars

\* a call with a rejected address on an instance that holds a RangeSet: the
\* one request made is the one that fetched it
C13_Witness ==
  /\ call.state = "returned"
  /\ call.err \in ValidationErrors
  /\ call.requests = 0
  /\ meta # NilPtr
  /\ httpRequests = 1

\* the last call made a request and came back with an error
LastFetchFailed ==
  call.state = "returned" /\ call.requests = 1 /\ call.err # NoErr

\* C14: a fetch that fails caches nothing, not even a partly decoded
\* RangeSet; the next call with an accepted address makes a new request, and
\* no call classifies without a RangeSet.
C14_FailedFetchCachesNothing ==
  [][/\ (httpRequests' = httpRequests + 1 /\ call'.state = "returned"
                                           /\ call'.err # NoErr) =>
          /\ meta' = NilPtr
          /\ call'.result = NilPtr
     /\ (LastFetchFailed /\ githubMetaURL' = githubMetaURL
                         /\ Validate(call'.ipStr).err = NoErr) =>
          /\ httpRequests' = httpRequests + 1
          /\ call'.requests = 1
     /\ call'.result # NilPtr => meta' # NilPtr
    ]_vars

\* a fetch failed, the next call asked again and that fetch failed too
C14_Witness ==
  /\ LastFetchFailed
  /\ httpRequests = 2
  /\ meta = NilPtr
  /\ call.err \in {FetchFailed(<<"failed to decode GitHub meta response: ",
                                  "json: cannot decode">>),
                    StatusError(<<"5", "0", "0">>)}

====
